---- MODULE Spec2Model ----
(***************************************************************************)
(* The checkpoint protocol of main.py: the two request handlers            *)
(* checkpoint_start and checkpoint_end, the Firestore collections they     *)
(* read and write, and the ip-api and ShrinkMe providers they call.        *)
(*                                                                         *)
(* A request is handled in steps. Each step is one store operation or one  *)
(* provider reply together with the local code around it; steps of         *)
(* different requests interleave freely, because the store is shared by    *)
(* every running handler (the start page is served by one deployment, the  *)
(* end page by another, BASE_API_URL vs PING_URL) and the handlers hold no *)
(* lock and use no transaction.                                            *)
(*                                                                         *)
(* Amounts are in tenths of a token (7.5 tokens = 75), CPM rates in        *)
(* hundredths (3.50 = 350).                                                *)
(***************************************************************************)
EXTENDS Integers, Sequences, FiniteSets, TLC

VARIABLES
    tokens,     \* collection 'tokens': document id -> document
    balance,    \* collection 'users': user id -> field 'balance'
    req,        \* the requests received so far, in order of arrival, with their locals
    credits     \* history: document id -> number of balance increments issued for it

vars == <<tokens, balance, req, credits>>

----------------------------------------------------------------------------
(* Bounds *)

\* Requests received in one behaviour.
MaxReq == 2

----------------------------------------------------------------------------
(* Values *)

\* Python's None: an absent header, an absent document field.
None == "None"

\* An absent 'token_reward' field (amounts are numbers, never negative).
NoReward == 0 - 1

PING_TOKEN == "ping-dummy-token"

\* CPM rates from ShrinkMe.io, in hundredths.
CPM_RATES ==
    [c \in {"GL", "IE", "US", "BE", "GB", "CA", "BR", "NZ", "AU", "SE",
            "FR", "ES", "DE", "IN", "ID", "PH", "IT", "TH", "SA", "MX"} |->
       CASE c = "GL" -> 2200 [] c = "IE" -> 1600 [] c = "US" -> 1100
         [] c = "BE" -> 750  [] c = "GB" -> 700  [] c = "CA" -> 650
         [] c = "BR" -> 650  [] c = "NZ" -> 600  [] c = "AU" -> 600
         [] c = "SE" -> 550  [] c = "FR" -> 500  [] c = "ES" -> 500
         [] c = "DE" -> 500  [] c = "IN" -> 410  [] c = "ID" -> 400
         [] c = "PH" -> 400  [] c = "IT" -> 400  [] c = "TH" -> 400
         [] c = "SA" -> 400  [] c = "MX" -> 400]

DEFAULT_CPM == 350

\* Mutant of get_token_reward: `>` in place of `>=` at the top threshold.
get_token_reward_strict(country_code) ==
    LET cpm == IF country_code \in DOMAIN CPM_RATES
               THEN CPM_RATES[country_code] ELSE DEFAULT_CPM
    IN  IF cpm > 1600 THEN 100
        ELSE IF cpm >= 700 THEN 75
        ELSE IF cpm > 350 THEN 50
        ELSE 50

get_token_reward(country_code) ==
    LET cpm == IF country_code \in DOMAIN CPM_RATES
               THEN CPM_RATES[country_code] ELSE DEFAULT_CPM
    IN  IF cpm >= 1600 THEN 100
        ELSE IF cpm >= 700 THEN 75
        ELSE IF cpm > 350 THEN 50
        ELSE 50

----------------------------------------------------------------------------
(* The store *)

Users == {"u1", "u2"}

\* The documents of collection 'tokens', created by the issuer before any
\* request: status 'pending', no initial_ip, initial_country or token_reward.
\* One of them carries the value the keep-alive ping sends.
IssuedTokens ==
    [d1 |-> [token |-> "t1", userId |-> "u1"],
     d2 |-> [token |-> "t2", userId |-> "u1"],
     d3 |-> [token |-> PING_TOKEN, userId |-> "u2"]]

DocIds == DOMAIN IssuedTokens

\* The token values a request may carry: issued ones, the keep-alive value
\* (which the issuer has also given to a document) and one that no document has.
TokenValues == {"t1", "t2", PING_TOKEN, "t0"}

\* db.collection('tokens').where('token', '==', token).limit(1).stream():
\* the ids of the documents the query may yield first.
QueryByToken(token) == {d \in DocIds : tokens[d].token = token}

\* Mutant of StampFields: a document that is not pending is left as it is.
StampFieldsIfPending(doc, user_ip, country, token_reward) ==
    IF doc.status = "pending"
    THEN [doc EXCEPT !.initial_ip = user_ip,
                     !.initial_country = country,
                     !.token_reward = token_reward]
    ELSE doc

\* Mutant of StampFields: the update also marks the token used.
StampFieldsMarkUsed(doc, user_ip, country, token_reward) ==
    [doc EXCEPT !.initial_ip = user_ip,
                !.initial_country = country,
                !.token_reward = token_reward,
                !.status = "used"]

\* Mutant of StampFields: the update also writes the status back to 'pending'.
StampFieldsResetStatus(doc, user_ip, country, token_reward) ==
    [doc EXCEPT !.initial_ip = user_ip,
                !.initial_country = country,
                !.token_reward = token_reward,
                !.status = "pending"]

\* db.collection('tokens').document(id).update({initial_ip, initial_country,
\* token_reward}): the other fields are left as they are.
StampFields(doc, user_ip, country, token_reward) ==
    [doc EXCEPT !.initial_ip = user_ip,
                !.initial_country = country,
                !.token_reward = token_reward]

\* db.collection('tokens').document(id).update({'status': 'used'})
MarkUsed(doc) == [doc EXCEPT !.status = "used"]

\* Mutant of IncrementBalance: the balance is set to the reward, not incremented.
SetBalance(bal, user_id, token_reward) ==
    [bal EXCEPT ![user_id] = token_reward]

\* db.collection('users').document(user_id).update(
\*     {'balance': firestore.Increment(token_reward)})
IncrementBalance(bal, user_id, token_reward) ==
    [bal EXCEPT ![user_id] = @ + token_reward]

----------------------------------------------------------------------------
(* The providers *)

\* The values of the cf-connecting-ip header; None when the header is absent.
Headers == {None, "1.2.3.4", "2001:DB8::1"}

GeoFailure == [status |-> "fail", query |-> None, country |-> None, countryCode |-> None]

GeoSuccess(query, country, countryCode) ==
    [status |-> "success", query |-> query, country |-> country, countryCode |-> countryCode]

\* get_ip_info(ip): the JSON replies of ip-api.com. The provider may fail for
\* any address; 'query' is the address as the provider writes it; the country
\* it gives for an address may change between two lookups.
get_ip_info(ip) ==
    {GeoFailure} \cup
    (CASE ip = "1.2.3.4" -> {GeoSuccess("1.2.3.4", "United States", "US")}
       [] ip = "2001:DB8::1" -> {GeoSuccess("2001:db8::1", "Germany", "DE"),
                                 GeoSuccess("2001:db8::1", "Ireland", "IE")}
       [] OTHER -> {})

\* shorten_with_shrinkme(long_url): TRUE when it returns a link, FALSE when it raises.
ShortenOutcomes == {TRUE, FALSE}

----------------------------------------------------------------------------
(* The conditions of the handlers *)

\* `if not user_ip` / `if not current_ip`
NoOriginHeader(hdr) == hdr = None

\* Mutant of GeoLookupRejected: the test looks for a status the provider never sends.
GeoLookupRejectedOnError(ip_info) == ip_info.status = "error"

\* `if ip_info['status'] != 'success'`
GeoLookupRejected(ip_info) == ip_info.status # "success"

\* Mutant of IsPing: the test misspells the keep-alive value.
IsPingMisspelt(token) == token = "ping_dummy_token"

\* `if token == "ping-dummy-token"`
IsPing(token) == token = PING_TOKEN

\* Mutant of StatusRejected: the test misspells the status it looks for.
StatusRejectedMisspelt(token_data) == token_data.status = "Used"

\* `if token_data['status'] != 'pending'`
StatusRejected(token_data) == token_data.status # "pending"

\* Mutant of OriginMismatch: `and` in place of `or`.
OriginMismatchBoth(token_data, current_ip, current_country) ==
    /\ current_ip # token_data.initial_ip
    /\ current_country # token_data.initial_country

\* Mutant of OriginMismatch: a document without initial_ip is not compared.
OriginMismatchIfStamped(token_data, current_ip, current_country) ==
    /\ token_data.initial_ip # None
    /\ \/ current_ip # token_data.initial_ip
       \/ current_country # token_data.initial_country

\* `if current_ip != token_data.get('initial_ip') or
\*     current_country != token_data.get('initial_country')`
OriginMismatch(token_data, current_ip, current_country) ==
    \/ current_ip # token_data.initial_ip
    \/ current_country # token_data.initial_country

----------------------------------------------------------------------------
(* Requests *)

NoData == [token |-> None, userId |-> None, status |-> None,
           initial_ip |-> None, initial_country |-> None, token_reward |-> NoReward]

NoInfo == [status |-> None, query |-> None, country |-> None, countryCode |-> None]

Reqs == 1..Len(req)

InFlight(r) == req[r].pc # "done"

\* A request as it arrives: no lookup made, nothing read, nothing written.
NewRequest(op, token, hdr) ==
    [op |-> op, token |-> token, hdr |-> hdr, pc |-> "begin",
     ip_info |-> NoInfo, doc |-> None, token_data |-> NoData,
     result |-> None, writes |-> 0,
     alone |-> \A x \in Reqs : InFlight(x) => req[x].token # token]

\* The requests already there, when one for `token` arrives.
Overlapped(token) ==
    [x \in Reqs |->
        IF InFlight(x) /\ req[x].token = token
        THEN [req[x] EXCEPT !.alone = FALSE] ELSE req[x]]

\* The handler returns: its locals stay as they were at that point.
Return(rec, result) == [rec EXCEPT !.pc = "done", !.result = result]

\* The store outlives the server processes: when the handlers start serving,
\* each issued token is as the issuer created it, or as an earlier start left
\* it, or as an earlier start and end left it (with its reward credited).
FreshDoc(d) ==
    [token |-> IssuedTokens[d].token, userId |-> IssuedTokens[d].userId,
     status |-> "pending", initial_ip |-> None,
     initial_country |-> None, token_reward |-> NoReward]

StampedDoc(d) ==
    StampFields(FreshDoc(d), "1.2.3.4", "United States", get_token_reward("US"))

UsedDoc(d) == MarkUsed(StampedDoc(d))

\* A document whose token is the keep-alive value is never stamped (start
\* returns at line 148 before its query), so it is never redeemed either.
InitialDocs(d) ==
    IF IssuedTokens[d].token = PING_TOKEN
    THEN {FreshDoc(d)}
    ELSE {FreshDoc(d), StampedDoc(d), UsedDoc(d)}

InitialStores ==
    {st \in [DocIds -> UNION {InitialDocs(d) : d \in DocIds}] :
        \A d \in DocIds : st[d] \in InitialDocs(d)}

RECURSIVE SumRewards(_, _)
SumRewards(st, ds) ==
    IF ds = {} THEN 0
    ELSE LET d == CHOOSE x \in ds : TRUE
         IN  (IF st[d].status = "used" THEN st[d].token_reward ELSE 0)
             + SumRewards(st, ds \ {d})

Init ==
    /\ tokens \in InitialStores
    /\ balance = [u \in Users |->
                    SumRewards(tokens, {d \in DocIds : tokens[d].userId = u})]
    /\ req = << >>
    /\ credits = [d \in DocIds |-> IF tokens[d].status = "used" THEN 1 ELSE 0]

----------------------------------------------------------------------------
(* checkpoint_start *)

\* Lines 127-133: the request arrives; the header is read.
StartBegin(token, hdr) ==
    /\ Len(req) < MaxReq
    /\ LET new == NewRequest("start", token, hdr)
       IN  req' = Append(Overlapped(token),
                         IF NoOriginHeader(hdr) THEN Return(new, "NoOrigin")
                         ELSE [new EXCEPT !.pc = "s_geo"])
    /\ UNCHANGED <<tokens, balance, credits>>

\* Lines 135-151, 158-160: the reply of get_ip_info, the ping shortcut, the query.
StartGeo(r, ip_info) ==
    /\ req[r].pc = "s_geo"
    /\ ip_info \in get_ip_info(req[r].hdr)
    /\ LET rec == [req[r] EXCEPT !.ip_info = ip_info]
       IN  IF GeoLookupRejected(ip_info)
           THEN req' = [req EXCEPT ![r] = Return(rec, "GeoLookupFailed")]
           ELSE IF IsPing(req[r].token)
           THEN req' = [req EXCEPT ![r] = Return(rec, "Ping")]
           ELSE IF QueryByToken(req[r].token) = {}
           THEN req' = [req EXCEPT ![r] = Return(rec, "TokenNotFound")]
           ELSE \E d \in QueryByToken(req[r].token) :
                    req' = [req EXCEPT ![r] = [rec EXCEPT !.doc = d, !.pc = "s_stamp"]]
    /\ UNCHANGED <<tokens, balance, credits>>

\* Mutant of StartStamp: the header is stored, not the address of the lookup
\* (line 140 left out).
StartStampRaw(r) ==
    /\ req[r].pc = "s_stamp"
    /\ LET d == req[r].doc
           info == req[r].ip_info
       IN  tokens' = [tokens EXCEPT ![d] =
                         StampFields(@, req[r].hdr, info.country,
                                     get_token_reward(info.countryCode))]
    /\ req' = [req EXCEPT ![r].pc = "s_shorten", ![r].writes = @ + 1]
    /\ UNCHANGED <<balance, credits>>

\* Lines 153-157: the update of the token document.
StartStamp(r) ==
    /\ req[r].pc = "s_stamp"
    /\ LET d == req[r].doc
           info == req[r].ip_info
       IN  tokens' = [tokens EXCEPT ![d] =
                         StampFields(@, info.query, info.country,
                                     get_token_reward(info.countryCode))]
    /\ req' = [req EXCEPT ![r].pc = "s_shorten", ![r].writes = @ + 1]
    /\ UNCHANGED <<balance, credits>>

\* Mutant of StartShorten: when ShrinkMe fails the stamp is taken back.
StartShortenRollback(r, ok) ==
    /\ req[r].pc = "s_shorten"
    /\ ok \in ShortenOutcomes
    /\ req' = [req EXCEPT ![r] = Return(@, IF ok THEN "Started" ELSE "ShorteningFailed")]
    /\ tokens' = IF ok THEN tokens
                 ELSE [tokens EXCEPT ![req[r].doc] = StampFields(@, None, None, NoReward)]
    /\ UNCHANGED <<balance, credits>>

\* Lines 162-184: the ShrinkMe link, or its failure.
StartShorten(r, ok) ==
    /\ req[r].pc = "s_shorten"
    /\ ok \in ShortenOutcomes
    /\ req' = [req EXCEPT ![r] = Return(@, IF ok THEN "Started" ELSE "ShorteningFailed")]
    /\ UNCHANGED <<tokens, balance, credits>>

----------------------------------------------------------------------------
(* checkpoint_end *)

\* Lines 187-205: the request arrives; the query, the status check, the header.
EndBegin(token, hdr) ==
    /\ Len(req) < MaxReq
    /\ LET new == NewRequest("end", token, hdr)
       IN  IF QueryByToken(token) = {}
           THEN req' = Append(Overlapped(token), Return(new, "TokenNotFound"))
           ELSE \E d \in QueryByToken(token) :
                  LET rec == [new EXCEPT !.doc = d, !.token_data = tokens[d]]
                  IN  req' = Append(Overlapped(token),
                          IF StatusRejected(rec.token_data)
                          THEN Return(rec, "TokenAlreadyUsed")
                          ELSE IF NoOriginHeader(hdr)
                          THEN Return(rec, "NoOrigin")
                          ELSE [rec EXCEPT !.pc = "e_geo"])
    /\ UNCHANGED <<tokens, balance, credits>>

\* Mutant of EndGeo: the status is written before the origin is compared.
EndGeoMarkFirst(r, ip_info) ==
    /\ req[r].pc = "e_geo"
    /\ ip_info \in get_ip_info(req[r].hdr)
    /\ LET rec == [req[r] EXCEPT !.ip_info = ip_info]
       IN  IF GeoLookupRejected(ip_info)
           THEN /\ req' = [req EXCEPT ![r] = Return(rec, "GeoLookupFailed")]
                /\ tokens' = tokens
           ELSE /\ tokens' = [tokens EXCEPT ![req[r].doc] = MarkUsed(@)]
                /\ req' = [req EXCEPT ![r] =
                      IF OriginMismatch(rec.token_data, ip_info.query, ip_info.country)
                      THEN Return([rec EXCEPT !.writes = @ + 1], "OriginMismatch")
                      ELSE [rec EXCEPT !.pc = "e_mark"]]
    /\ UNCHANGED <<balance, credits>>

\* Lines 207-218: the reply of get_ip_info, compared with the document as read.
EndGeo(r, ip_info) ==
    /\ req[r].pc = "e_geo"
    /\ ip_info \in get_ip_info(req[r].hdr)
    /\ LET rec == [req[r] EXCEPT !.ip_info = ip_info]
       IN  req' = [req EXCEPT ![r] =
                IF GeoLookupRejected(ip_info)
                THEN Return(rec, "GeoLookupFailed")
                ELSE IF OriginMismatch(rec.token_data, ip_info.query, ip_info.country)
                THEN Return(rec, "OriginMismatch")
                ELSE [rec EXCEPT !.pc = "e_mark"]]
    /\ UNCHANGED <<tokens, balance, credits>>

\* Lines 221-222: the status update.
EndMark(r) ==
    /\ req[r].pc = "e_mark"
    /\ tokens' = [tokens EXCEPT ![req[r].doc] = MarkUsed(@)]
    /\ req' = [req EXCEPT ![r].pc = "e_credit", ![r].writes = @ + 1]
    /\ UNCHANGED <<balance, credits>>

\* Lines 223-231: the balance increment and the answer.
EndCredit(r) ==
    /\ req[r].pc = "e_credit"
    /\ balance' = IncrementBalance(balance, req[r].token_data.userId,
                                   req[r].token_data.token_reward)
    /\ credits' = [credits EXCEPT ![req[r].doc] = @ + 1]
    /\ req' = [req EXCEPT ![r] = Return([@ EXCEPT !.writes = @ + 1], "Redeemed")]
    /\ UNCHANGED <<tokens>>

----------------------------------------------------------------------------

GeoReplies == UNION {get_ip_info(h) : h \in Headers}

Next ==
    \/ \E t \in TokenValues, h \in Headers : StartBegin(t, h)
    \/ \E r \in Reqs, i \in GeoReplies : StartGeo(r, i)
    \/ \E r \in Reqs : StartStamp(r)
    \/ \E r \in Reqs, ok \in ShortenOutcomes : StartShorten(r, ok)
    \/ \E t \in TokenValues, h \in Headers : EndBegin(t, h)
    \/ \E r \in Reqs, i \in GeoReplies : EndGeo(r, i)
    \/ \E r \in Reqs : EndMark(r)
    \/ \E r \in Reqs : EndCredit(r)

Spec == Init /\ [][Next]_vars

----------------------------------------------------------------------------
(* Reading a step *)

\* Request n is received in this step.
Arrives(n) == n = Len(req) + 1 /\ Len(req') = n

\* Request r, received earlier, takes this step.
Steps(r) == r \in Reqs /\ req'[r] # req[r] /\ req'[r].pc # req[r].pc

\* This step changes nothing in the store.
StoreUnchanged == tokens' = tokens /\ balance' = balance /\ credits' = credits

\* In the requests q: no request for the same token was being handled while r
\* was (r.alone), and s is the last request for that token received before r,
\* itself handled alone.
Consecutive(q, s, r) ==
    /\ s \in 1..Len(q) /\ r \in 1..Len(q) /\ s < r
    /\ q[s].token = q[r].token
    /\ q[s].alone /\ q[r].alone
    /\ \A x \in 1..Len(q) : (s < x /\ x < r) => q[x].token # q[r].token

IsStamped(doc) == doc.initial_ip # None

----------------------------------------------------------------------------
(* C1 *)

\* C1: however many end calls run concurrently on one pending token, all from
\* the origin recorded at start, the owner's balance is incremented for that
\* token once, never N times.
C1_ExactlyOneCredit == \A d \in DocIds : credits[d] <= 1

----------------------------------------------------------------------------
(* C2 *)

\* C2 (invariant I4): in every state of the store a token's reward has been
\* credited if and only if its status is 'used'.
C2_CreditIffUsed ==
    \A d \in DocIds : (tokens[d].status = "used") <=> (credits[d] >= 1)

----------------------------------------------------------------------------
(* C3 *)

\* C3 (invariant I3): an end call received while the token's status is 'used'
\* is answered TokenAlreadyUsed, whatever its origin, and writes nothing; and of
\* two end calls on a token handled one after the other at most one is credited.
C3_UsedIsTerminal ==
    [][ /\ \A n \in 1..MaxReq :
             ( /\ Arrives(n)
               /\ req'[n].op = "end"
               /\ \E d \in QueryByToken(req'[n].token) : tokens[d].status = "used" )
             => /\ req'[n].pc = "done"
                /\ req'[n].result = "TokenAlreadyUsed"
                /\ req'[n].writes = 0
                /\ StoreUnchanged
        /\ \A r1 \in 1..Len(req'), r2 \in 1..Len(req') :
             ( /\ r1 < r2
               /\ req'[r1].op = "end" /\ req'[r2].op = "end"
               /\ req'[r1].token = req'[r2].token
               /\ req'[r1].alone /\ req'[r2].alone
               /\ req'[r1].result = "Redeemed" )
             => (req'[r2].pc = "done" => req'[r2].result = "TokenAlreadyUsed")
      ]_vars

\* An end call was credited and the next end call on the same token was refused.
C3_Witness ==
    \E r1 \in Reqs, r2 \in Reqs :
        /\ r1 < r2
        /\ req[r1].op = "end" /\ req[r1].result = "Redeemed"
        /\ req[r2].op = "end" /\ req[r2].result = "TokenAlreadyUsed"
        /\ req[r1].token = req[r2].token
        /\ req[r2].hdr = req[r1].hdr
        /\ credits[req[r1].doc] = 1

----------------------------------------------------------------------------
(* C4 *)

\* C4 (invariant I2): whenever an end call moves a token from 'pending' to
\* 'used', the address and country that call resolved are the initial_ip and
\* initial_country the document holds at that moment.
C4_EndMatchesRecorded ==
    [][ \A r \in Reqs :
          ( /\ req[r].pc = "e_mark" /\ req'[r].pc = "e_credit"
            /\ tokens[req[r].doc].status = "pending"
            /\ tokens'[req[r].doc].status = "used" )
          => /\ req[r].ip_info.query = tokens[req[r].doc].initial_ip
             /\ req[r].ip_info.country = tokens[req[r].doc].initial_country
      ]_vars

----------------------------------------------------------------------------
(* C5 *)

\* C5: an end call that read a pending, stamped token and whose lookup resolves
\* an address or a country other than the recorded one is answered
\* OriginMismatch and writes nothing: the status stays 'pending' and no balance
\* changes.
C5_MismatchRejected ==
    [][ \A r \in Reqs :
          ( /\ req[r].pc = "e_geo" /\ Steps(r)
            /\ req'[r].ip_info.status = "success"
            /\ req[r].token_data.status = "pending"
            /\ IsStamped(req[r].token_data)
            /\ \/ req'[r].ip_info.query # req[r].token_data.initial_ip
               \/ req'[r].ip_info.country # req[r].token_data.initial_country )
          => /\ req'[r].pc = "done"
             /\ req'[r].result = "OriginMismatch"
             /\ req'[r].writes = 0
             /\ StoreUnchanged
             /\ req[r].alone => tokens'[req[r].doc].status = "pending"
      ]_vars

\* An end call from another address, and one from the same address resolved to
\* another country, were refused on a stamped token that is still pending.
C5_Witness ==
    \E r \in Reqs :
        /\ req[r].op = "end" /\ req[r].result = "OriginMismatch"
        /\ IsStamped(req[r].token_data)
        /\ req[r].ip_info.query = req[r].token_data.initial_ip
        /\ req[r].ip_info.country # req[r].token_data.initial_country
        /\ tokens[req[r].doc].status = "pending"
        /\ credits[req[r].doc] = 0

----------------------------------------------------------------------------
(* C6 *)

\* C6 (invariant I1): once initial_ip, initial_country and token_reward are set
\* on a token, no later call changes any of them.
C6_StampedOnce ==
    [][ \A d \in DocIds :
          IsStamped(tokens[d])
          => /\ tokens'[d].initial_ip = tokens[d].initial_ip
             /\ tokens'[d].initial_country = tokens[d].initial_country
             /\ tokens'[d].token_reward = tokens[d].token_reward
      ]_vars

----------------------------------------------------------------------------
(* C7 *)

\* C7: the status of a token is 'pending' or 'used', and the only change of
\* status any step makes is from 'pending' to 'used'.
C7_StatusMonotonic ==
    [][ \A d \in DocIds :
          /\ tokens'[d].status \in {"pending", "used"}
          /\ tokens'[d].status # tokens[d].status
               => (tokens[d].status = "pending" /\ tokens'[d].status = "used")
      ]_vars

\* A token was redeemed, then stamped again by a start call, and is still used.
C7_Witness ==
    \E r1 \in Reqs, r2 \in Reqs :
        /\ req[r1].op = "end" /\ req[r1].result = "Redeemed"
        /\ req[r2].op = "start" /\ req[r2].result = "Started"
        /\ req[r1].doc = req[r2].doc
        /\ r1 < r2
        /\ tokens[req[r1].doc].status = "used"

----------------------------------------------------------------------------
(* C8 *)

\* The end call r, answered in this step, read a token that exists as pending
\* and that no start has stamped; its origin header is present and its lookup
\* succeeds.
EndsUnstarted(r) ==
    /\ req[r].op = "end" /\ req[r].pc = "e_geo" /\ Steps(r)
    /\ req[r].token_data.status = "pending"
    /\ ~IsStamped(req[r].token_data)
    /\ req'[r].ip_info.status = "success"

\* C8 as claimed: an end call on a pending token that start never stamped is
\* answered TokenNotFound, marks nothing and credits nothing.
C8_UnstartedNotFound ==
    [][ \A r \in Reqs :
          EndsUnstarted(r)
          => /\ req'[r].pc = "done"
             /\ req'[r].result = "TokenNotFound"
             /\ StoreUnchanged
      ]_vars

\* C8 as amended: an end call on a pending token that start never stamped is
\* answered OriginMismatch (NoOrigin when the header is absent, GeoLookupFailed
\* when the lookup fails), never TokenNotFound, and marks nothing and credits
\* nothing.
C8_UnstartedMismatch ==
    [][ /\ \A r \in Reqs :
             EndsUnstarted(r)
             => /\ req'[r].pc = "done"
                /\ req'[r].result = "OriginMismatch"
                /\ req'[r].writes = 0
                /\ StoreUnchanged
        /\ \A r \in 1..Len(req') :
             ( /\ req'[r].op = "end"
               /\ req'[r].token_data.status = "pending"
               /\ ~IsStamped(req'[r].token_data) )
             => /\ req'[r].pc \in {"e_geo", "done"}
                /\ req'[r].writes = 0
                /\ req'[r].pc = "done" =>
                     req'[r].result =
                        IF NoOriginHeader(req'[r].hdr) THEN "NoOrigin"
                        ELSE IF req'[r].ip_info.status = "success" THEN "OriginMismatch"
                        ELSE "GeoLookupFailed"
      ]_vars

\* An end call on a fresh token was answered OriginMismatch; the token is still
\* fresh and nothing was credited.
C8_Witness ==
    \E r \in Reqs :
        /\ req[r].op = "end" /\ req[r].result = "OriginMismatch"
        /\ ~IsStamped(req[r].token_data)
        /\ req[r].ip_info.status = "success"
        /\ tokens[req[r].doc] = FreshDoc(req[r].doc)
        /\ credits[req[r].doc] = 0

----------------------------------------------------------------------------
(* C9 *)

\* The end call r follows the successful start call s on a pending token, with
\* no other call on the token, and its lookup resolves what the lookup of s did.
HappyPath(q, s, r) ==
    /\ Consecutive(q, s, r)
    /\ q[s].op = "start" /\ q[s].result = "Started"
    /\ q[r].op = "end"
    /\ q[r].token_data.status = "pending"
    /\ q[r].ip_info.status = "success"
    /\ q[r].ip_info.query = q[s].ip_info.query
    /\ q[r].ip_info.country = q[s].ip_info.country

\* C9: such an end call is never refused; its status update leaves the token
\* 'used'; its credit adds reward(countryCode resolved at start), 7.5 for US,
\* to the owner's balance and changes no other balance; it is answered Redeemed.
C9_HappyPath ==
    [][ \A s \in 1..Len(req'), r \in 1..Len(req') :
          HappyPath(req', s, r)
          => /\ req'[r].pc \in {"e_mark", "e_credit", "done"}
             /\ req'[r].pc = "done" =>
                   /\ req'[r].result = "Redeemed"
                   /\ tokens'[req'[r].doc].status = "used"
             /\ (Steps(r) /\ req[r].pc = "e_mark") =>
                   /\ tokens'[req[r].doc].status = "used"
                   /\ balance' = balance
             /\ (Steps(r) /\ req[r].pc = "e_credit") =>
                   LET u == IssuedTokens[req[r].doc].userId
                       amount == get_token_reward(req[s].ip_info.countryCode)
                   IN  /\ balance' = [balance EXCEPT ![u] = @ + amount]
                       /\ req[s].ip_info.countryCode = "US" => amount = 75
                       /\ req'[r].result = "Redeemed"
                       /\ tokens' = tokens
      ]_vars

\* A start from the US address, then an end from it: the token is used and the
\* owner has 7.5 tokens more than the other redeemed tokens gave.
C9_Witness ==
    \E s \in Reqs, r \in Reqs :
        /\ HappyPath(req, s, r)
        /\ req[r].result = "Redeemed"
        /\ req[s].ip_info.countryCode = "US"
        /\ tokens[req[r].doc].status = "used"
        /\ balance["u1"] = 75 * Cardinality({d \in DocIds : tokens[d].status = "used"})

----------------------------------------------------------------------------
(* C10 *)

\* C10: when get_ip_info reports a failure, the start call, or the end call, is
\* answered GeoLookupFailed and has written nothing: no token field, no status
\* and no balance changes.
C10_GeoFailureNoWrite ==
    [][ \A r \in Reqs :
          ( /\ req[r].pc \in {"s_geo", "e_geo"} /\ Steps(r)
            /\ req'[r].ip_info.status # "success" )
          => /\ req'[r].pc = "done"
             /\ req'[r].result = "GeoLookupFailed"
             /\ req'[r].writes = 0
             /\ StoreUnchanged
      ]_vars

\* A start call on a fresh token and an end call both met a failing lookup; the
\* token of the start call is still fresh.
C10_Witness ==
    \E r1 \in Reqs, r2 \in Reqs :
        /\ req[r1].op = "start" /\ req[r1].result = "GeoLookupFailed"
        /\ req[r1].token = "t1" /\ tokens["d1"] = FreshDoc("d1")
        /\ req[r2].op = "end" /\ req[r2].result = "GeoLookupFailed"
        /\ IsStamped(req[r2].token_data)
        /\ tokens[req[r2].doc] = req[r2].token_data

----------------------------------------------------------------------------
(* C11 *)

\* The country codes get_token_reward is tried on: every code of the rate
\* table, and codes the table does not have.
CountryCodes == DOMAIN CPM_RATES \cup {"ZZ", "", None}

\* The rate of a code as the claim reads the table: absent codes have the
\* default rate.
RateOf(c) == IF c \in DOMAIN CPM_RATES THEN CPM_RATES[c] ELSE 350

\* get_token_reward on every code: 10 when the rate is at least 16, 7.5 when it
\* is in [7, 16), 5 when it is in (3.5, 7), 5 when it is at most 3.5, and 5 for
\* a code that is not in the table.
RewardTiersHold ==
    \A c \in CountryCodes :
        /\ RateOf(c) >= 1600 => get_token_reward(c) = 100
        /\ (RateOf(c) >= 700 /\ RateOf(c) < 1600) => get_token_reward(c) = 75
        /\ (RateOf(c) > 350 /\ RateOf(c) < 700) => get_token_reward(c) = 50
        /\ RateOf(c) <= 350 => get_token_reward(c) = 50
        /\ c \notin DOMAIN CPM_RATES => get_token_reward(c) = 50

\* C11: for every country code, get_token_reward gives 10 when the rate is at
\* least 16, 7.5 when it is in [7, 16), 5 when it is in (3.5, 7), 5 when it is
\* at most 3.5, and 5 for a code that is not in the table; and the reward a
\* start call stamps is that value for the country code of its lookup, the call
\* to get_token_reward changing nothing else.
C11_RewardTiers ==
    [][ /\ RewardTiersHold
        /\ \A r \in Reqs :
             (req[r].pc = "s_stamp" /\ Steps(r))
             => LET code == req[r].ip_info.countryCode
                    reward == tokens'[req[r].doc].token_reward
                IN  /\ code = "IE" => reward = 100
                    /\ code = "US" => reward = 75
                    /\ code = "DE" => reward = 50
                    /\ balance' = balance /\ credits' = credits
      ]_vars

\* Two tiers have been stamped: one token from Ireland (rate 16, the
\* boundary of the top tier), the other from the United States (rate 11).
C11_Witness ==
    /\ tokens["d1"].initial_country = "Ireland" /\ tokens["d1"].token_reward = 100
    /\ tokens["d2"].initial_country = "United States" /\ tokens["d2"].token_reward = 75
    /\ \E r \in Reqs : req[r].op = "start" /\ req[r].doc = "d1" /\ req[r].result = "Started"

----------------------------------------------------------------------------
(* C12 *)

\* C12: a start call or an end call that arrives without the origin header is
\* answered NoOrigin before any lookup (no query on the tokens, no call of
\* get_ip_info), whatever its token, and changes nothing.
C12_NoOriginFirst ==
    [][ \A n \in 1..MaxReq :
          (Arrives(n) /\ NoOriginHeader(req'[n].hdr))
          => /\ req'[n].pc = "done"
             /\ req'[n].result = "NoOrigin"
             /\ req'[n].doc = None
             /\ req'[n].token_data = NoData
             /\ req'[n].ip_info = NoInfo
             /\ StoreUnchanged
      ]_vars

----------------------------------------------------------------------------
(* C13 *)

\* The answers that are errors, ShorteningFailed apart.
ErrorResults ==
    {"NoOrigin", "GeoLookupFailed", "TokenNotFound", "TokenAlreadyUsed", "OriginMismatch"}

\* C13: a start or end call that is answered with an error other than
\* ShorteningFailed has written nothing, at the step that answers it or before:
\* every token document and every balance is as that call found it.
C13_ErrorsWriteNothing ==
    [][ \A r \in 1..Len(req') :
          (req'[r].pc = "done" /\ req'[r].result \in ErrorResults)
          => /\ req'[r].writes = 0
             /\ (Arrives(r) \/ Steps(r)) => StoreUnchanged
      ]_vars

\* A start call and an end call were answered with errors on a stamped token,
\* which is as it was stamped.
C13_Witness ==
    \E r1 \in Reqs, r2 \in Reqs :
        /\ req[r1].op = "start" /\ req[r1].result = "TokenNotFound"
        /\ req[r2].op = "end" /\ req[r2].result = "OriginMismatch"
        /\ req[r2].ip_info.query # req[r2].token_data.initial_ip
        /\ tokens[req[r2].doc] = StampedDoc(req[r2].doc)
        /\ balance = [u \in Users |-> 0]

----------------------------------------------------------------------------
(* C14 *)

\* The token of document d was used before the first request: no end call of
\* this behaviour has written its status.
UsedBefore(d) ==
    /\ tokens[d].status = "used"
    /\ \A r \in Reqs : ~(req[r].op = "end" /\ req[r].doc = d /\ req[r].writes >= 1)

RECURSIVE SumInitial(_, _)
SumInitial(u, ds) ==
    IF ds = {} THEN 0
    ELSE LET d == CHOOSE x \in ds : TRUE
         IN  (IF IssuedTokens[d].userId = u /\ UsedBefore(d)
              THEN StampedDoc(d).token_reward ELSE 0)
             + SumInitial(u, ds \ {d})

RECURSIVE SumCredited(_, _)
SumCredited(u, rs) ==
    IF rs = {} THEN 0
    ELSE LET r == CHOOSE x \in rs : TRUE
         IN  (IF req[r].result = "Redeemed" /\ req[r].token_data.userId = u
              THEN req[r].token_data.token_reward ELSE 0)
             + SumCredited(u, rs \ {r})

\* C14: no credit is lost. In every state, whatever the interleaving of the end
\* calls, each user's balance is the initial balance plus the token_reward of
\* every end call answered Redeemed on one of that user's tokens.
C14_NoLostCredit ==
    \A u \in Users :
        balance[u] = SumInitial(u, DocIds) + SumCredited(u, Reqs)

\* Two end calls on two tokens of u1 run at the same time: the second to arrive
\* has been credited while the first has written its status and is about to
\* issue its increment.
C14_Witness ==
    \E r1 \in Reqs, r2 \in Reqs :
        /\ r1 < r2
        /\ req[r1].op = "end" /\ req[r2].op = "end"
        /\ req[r1].doc = "d1" /\ req[r2].doc = "d2"
        /\ req[r2].result = "Redeemed"
        /\ req[r1].pc = "e_credit"
        /\ balance["u1"] = 75

----------------------------------------------------------------------------
(* C15 *)

\* C15: what a start call stores is what its lookup returned (query, country,
\* reward of countryCode), not the header it received; and an end call goes on
\* to the status update exactly when the query and country of its lookup equal
\* the initial_ip and initial_country it read, whatever its header.
C15_LookupIsAuthoritative ==
    [][ \A r \in Reqs :
          /\ (req[r].pc = "s_stamp" /\ Steps(r))
             => LET doc == tokens'[req[r].doc]
                IN  /\ doc.initial_ip = req[r].ip_info.query
                    /\ doc.initial_country = req[r].ip_info.country
                    /\ doc.token_reward = get_token_reward(req[r].ip_info.countryCode)
          /\ (req[r].pc = "e_geo" /\ Steps(r) /\ req'[r].ip_info.status = "success")
             => ( req'[r].pc = "e_mark"
                  <=> /\ req'[r].ip_info.query = req[r].token_data.initial_ip
                      /\ req'[r].ip_info.country = req[r].token_data.initial_country )
      ]_vars

\* A start call and then an end call came with the header 2001:DB8::1, which the
\* lookup writes 2001:db8::1: the token holds the lookup's form and was redeemed.
C15_Witness ==
    \E s \in Reqs, r \in Reqs :
        /\ HappyPath(req, s, r)
        /\ req[s].hdr = "2001:DB8::1" /\ req[r].hdr = "2001:DB8::1"
        /\ req[r].result = "Redeemed"
        /\ tokens[req[r].doc].initial_ip = "2001:db8::1"
        /\ tokens[req[r].doc].initial_ip # req[s].hdr

----------------------------------------------------------------------------
(* C16 *)

\* C16: no step of a start call, whether the call ends well or in an error and
\* whether its token is pending or used, changes the status of any token or any
\* balance.
C16_StartKeepsStatus ==
    [][ \A r \in 1..Len(req') :
          (req'[r].op = "start" /\ (Arrives(r) \/ Steps(r)))
          => /\ \A d \in DocIds : tokens'[d].status = tokens[d].status
             /\ balance' = balance
             /\ credits' = credits
      ]_vars

\* Start calls were answered Started on a token that was used before and on a
\* pending one: the first is still used, the second still pending, and the
\* balance is that of the used token alone.
C16_Witness ==
    \E r1 \in Reqs, r2 \in Reqs :
        /\ req[r1].op = "start" /\ req[r1].result = "Started"
        /\ req[r2].op = "start" /\ req[r2].result = "Started"
        /\ UsedBefore(req[r1].doc)
        /\ tokens[req[r2].doc].status = "pending"
        /\ balance["u1"] = StampedDoc(req[r1].doc).token_reward

----------------------------------------------------------------------------
(* C17 *)

\* C17: start has no status guard. A start call whose lookup succeeds goes on
\* to its update also when the token is used, and that update overwrites
\* initial_ip, initial_country and token_reward with the values of the new
\* lookup while the status stays 'used' and no balance changes.
C17_StartRestampsUsed ==
    [][ \A r \in Reqs :
          /\ ( /\ req[r].pc = "s_geo" /\ Steps(r)
               /\ req'[r].ip_info.status = "success"
               /\ \E d \in QueryByToken(req[r].token) : tokens[d].status = "used" )
             => /\ req'[r].pc = "s_stamp"
                /\ tokens[req'[r].doc].status = "used"
          /\ ( /\ req[r].pc = "s_stamp" /\ Steps(r)
               /\ tokens[req[r].doc].status = "used" )
             => /\ tokens' = [tokens EXCEPT ![req[r].doc] =
                      [@ EXCEPT !.initial_ip = req[r].ip_info.query,
                                !.initial_country = req[r].ip_info.country,
                                !.token_reward =
                                    get_token_reward(req[r].ip_info.countryCode)]]
                /\ tokens'[req[r].doc].status = "used"
                /\ balance' = balance
      ]_vars

\* A token redeemed from the United States (7.5 credited) now carries the
\* address, country and reward of a later start from Ireland, and is still used.
C17_Witness ==
    \E r \in Reqs :
        /\ req[r].op = "start" /\ req[r].result = "Started"
        /\ req[r].doc = "d1"
        /\ tokens["d1"].status = "used"
        /\ tokens["d1"].initial_ip = "2001:db8::1"
        /\ tokens["d1"].initial_country = "Ireland"
        /\ tokens["d1"].token_reward = 100
        /\ credits["d1"] = 1
        /\ balance["u1"] = 75

----------------------------------------------------------------------------
(* C18 *)

\* The end call r follows, with no other call on the token, the start call s
\* that stamped the token and then failed to get its ShrinkMe link; the lookup
\* of r resolves what the lookup of s did, on a token r read as pending.
AfterFailedShortening(q, s, r) ==
    /\ Consecutive(q, s, r)
    /\ q[s].op = "start" /\ q[s].result = "ShorteningFailed"
    /\ q[r].op = "end"
    /\ q[r].token_data.status = "pending"
    /\ q[r].ip_info.status = "success"
    /\ q[r].ip_info.query = q[s].ip_info.query
    /\ q[r].ip_info.country = q[s].ip_info.country

\* C18: when ShrinkMe fails, the start call is answered ShorteningFailed and the
\* stamp it wrote before stays: that step changes nothing in the store, and the
\* document holds the address, country and reward of the call's lookup; an end
\* call that comes next from the same origin is not refused and is answered
\* Redeemed, with the stamped reward credited.
C18_StampSurvivesShortening ==
    [][ /\ \A r \in Reqs :
             (req[r].pc = "s_shorten" /\ Steps(r) /\ req'[r].result # "Started")
             => /\ req'[r].pc = "done"
                /\ req'[r].result = "ShorteningFailed"
                /\ req'[r].writes = 1
                /\ StoreUnchanged
                /\ req[r].alone =>
                     /\ tokens'[req[r].doc].initial_ip = req[r].ip_info.query
                     /\ tokens'[req[r].doc].initial_country = req[r].ip_info.country
                     /\ tokens'[req[r].doc].token_reward =
                            get_token_reward(req[r].ip_info.countryCode)
        /\ \A s \in 1..Len(req'), r \in 1..Len(req') :
             AfterFailedShortening(req', s, r)
             => /\ req'[r].pc \in {"e_mark", "e_credit", "done"}
                /\ req'[r].token_data.token_reward =
                       get_token_reward(req'[s].ip_info.countryCode)
                /\ req'[r].pc = "done" =>
                      /\ req'[r].result = "Redeemed"
                      /\ tokens'[req'[r].doc].status = "used"
      ]_vars

\* A start call from Germany failed at ShrinkMe, and the end call that followed
\* from the same origin was credited the 5 tokens it had stamped.
C18_Witness ==
    \E s \in Reqs, r \in Reqs :
        /\ AfterFailedShortening(req, s, r)
        /\ req[s].ip_info.countryCode = "DE"
        /\ req[r].result = "Redeemed"
        /\ tokens[req[r].doc].status = "used"
        /\ credits[req[r].doc] = 1
        /\ balance["u1"] = 50 + SumInitial("u1", DocIds)

----------------------------------------------------------------------------
(* C19 *)

\* C19: the amount an end call credits is the token_reward the document holds
\* at the moment that call marks it used, whatever start calls ran in between.
C19_CreditIsStoredReward ==
    [][ \A r \in Reqs :
          (req[r].pc = "e_mark" /\ Steps(r))
          => req[r].token_data.token_reward = tokens[req[r].doc].token_reward
      ]_vars

----------------------------------------------------------------------------
(* C20 *)

\* C20: a start call that carries the keep-alive token value never queries,
\* reads or writes a token document and changes no balance, although a document
\* with that value exists; with the header present and a successful lookup it
\* is answered Ping, and it is never answered TokenNotFound.
C20_PingTouchesNothing ==
    [][ \A r \in 1..Len(req') :
          (req'[r].op = "start" /\ req'[r].token = PING_TOKEN)
          => /\ QueryByToken(PING_TOKEN) # {}
             /\ req'[r].doc = None
             /\ req'[r].token_data = NoData
             /\ req'[r].writes = 0
             /\ req'[r].pc \in {"s_geo", "done"}
             /\ req'[r].result # "TokenNotFound"
             /\ (Arrives(r) \/ Steps(r)) => StoreUnchanged
             /\ (req'[r].pc = "done" /\ req'[r].ip_info.status = "success")
                   => req'[r].result = "Ping"
      ]_vars

\* A start call with the keep-alive value was answered Ping, and the document
\* that carries that value is as the issuer created it.
C20_Witness ==
    \E r \in Reqs :
        /\ req[r].op = "start" /\ req[r].token = PING_TOKEN
        /\ req[r].result = "Ping"
        /\ req[r].ip_info.status = "success"
        /\ \E d \in QueryByToken(PING_TOKEN) : tokens[d] = FreshDoc(d)

====
